---- MODULE Spec2Model ----
(***************************************************************************)
(* A model of the physics core of joshcol9232/orbits: the body registry    *)
(* (MainState.planets, planet_id_count), the mouse handlers that spawn     *)
(* bodies, and EventHandler::update: the all-pairs scan that routes each   *)
(* pair to put_in_collision_group or newtonian_grav, resolve_collisions,   *)
(* and the integration of the surviving bodies.                            *)
(*                                                                         *)
(* Arithmetic.  The program computes in f32, and so does the model: a      *)
(* finite f32 is [k |-> "fin", m, e], the value m * 2^e with               *)
(* 2^23 <= |m| < 2^24 (or m = 0, e = 0), and +, -, *, / and sqrt round to  *)
(* nearest, ties to even, as IEEE 754 binary32 does.  The exponent is not  *)
(* limited (no overflow to infinity, no subnormals: the values of a run    *)
(* stay far inside the f32 range), and -0.0 is 0.0 (they compare equal in  *)
(* the program).  Infinities and NaN are values of their own.  powf is     *)
(* libm's, whose last bit is not specified: the model gives the two f32    *)
(* that enclose the real power, and a step takes either.                   *)
(*                                                                         *)
(* Order.  A HashMap yields its keys, and a HashSet its members, in any    *)
(* order.  The key orders of the pair scan are followed up to MaxMoved     *)
(* keys out of the increasing order; the members of a collision group are  *)
(* followed in every order.                                                *)
(* An Option<T> is a sequence of length at most one.                       *)
(*                                                                         *)
(* Particle trails (planet_trails, emitters) are presentation state: no    *)
(* operation of the core reads them, and they are left out.                *)
(***************************************************************************)
EXTENDS Integers, Sequences, FiniteSets, TLC

\* ---------------------------------------------------------------- bounds
\* Mouse presses in one run.
MaxPresses == 2
\* Mouse releases in one run.
MaxReleases == 2
\* Completed update steps in one run.
MaxSteps == 1
\* The side of the square of planets MainState::new spawns, 10 in the
\* source: the square is cut to its first SquareSide columns and rows.
SquareSide == 2
\* The keys the HashMap yields ahead of the others, which follow in
\* increasing order.
MaxMoved == 1

\* ------------------------------------------------------------------ f32
\* The number of bits of x > 0.
BitLen(x) == CHOOSE n \in 1..31 : 2^(n - 1) <= x /\ (n = 31 \/ x < 2^n)

Abs(x) == IF x < 0 THEN 0 - x ELSE x
Sign(x) == IF x < 0 THEN 0 - 1 ELSE 1

Fin(m, e) == [k |-> "fin", m |-> m, e |-> e]
Zero == Fin(0, 0)
NaN == [k |-> "nan", m |-> 0, e |-> 0]
Inf(s) == [k |-> "inf", m |-> s, e |-> 0]

\* sign * q * 2^e for a rounded significand 2^23 <= q <= 2^24.
RoundUp(sign, q, e) ==
    IF q = 2^24 THEN Fin(sign * 2^23, e + 1) ELSE Fin(sign * q, e)

\* The bits below the 24 kept are r, of which half is the top one: round to
\* nearest, ties to even.
RoundCut(sign, q, r, half, e, sticky) ==
    RoundUp(sign,
            IF r > half \/ (r = half /\ (sticky \/ q % 2 = 1))
            THEN q + 1 ELSE q,
            e)

\* RoundPack for M of h bits.
RoundAt(sign, M, e, sticky, h) ==
    IF h <= 24 THEN Fin(sign * M * 2^(24 - h), e - (24 - h))
    ELSE RoundCut(sign, M \div 2^(h - 24), M % 2^(h - 24), 2^(h - 25),
                  e + (h - 24), sticky)

\* The f32 nearest to sign * (M + f) * 2^e, ties to even, for an integer
\* M >= 0 and a fraction 0 <= f < 1 that is non-zero iff sticky.
RoundPack(sign, M, e, sticky) ==
    IF M = 0 THEN Zero ELSE RoundAt(sign, M, e, sticky, BitLen(M))

\* An integer literal or an integer cast `as f32`.
FromInt(n) == RoundPack(Sign(n), Abs(n), 0, FALSE)

FNeg(a) == [a EXCEPT !.m = 0 - a.m]

\* The f32 nearest to (S + f) * 2^e for an integer S and a fraction
\* 0 <= f < 1 that is non-zero iff sticky.
RoundSum(S, sticky, e) ==
    RoundPack(IF S >= 0 THEN 1 ELSE 0 - 1,
              IF S >= 0 THEN S ELSE 0 - S - (IF sticky THEN 1 ELSE 0),
              e, sticky)

\* a + b with a shifted up by s bits and b down by the rest of the
\* exponents' difference.
AddAt(a, b, s) ==
    RoundSum(a.m * 2^s + b.m \div 2^(a.e - b.e - s),
             b.m % 2^(a.e - b.e - s) # 0,
             a.e - s)

\* a + b for finite non-zero a, b with a.e >= b.e.
AddFin(a, b) ==
    IF a.e - b.e > 26 THEN a
    ELSE AddAt(a, b, IF a.e - b.e < 6 THEN a.e - b.e ELSE 6)

\* f32 +
FAdd(a, b) ==
    IF a.k = "nan" \/ b.k = "nan" THEN NaN
    ELSE IF a.k = "inf" THEN (IF b.k = "inf" /\ b.m # a.m THEN NaN ELSE a)
    ELSE IF b.k = "inf" THEN b
    ELSE IF a.m = 0 THEN b
    ELSE IF b.m = 0 THEN a
    ELSE AddFin(IF a.e >= b.e THEN a ELSE b, IF a.e >= b.e THEN b ELSE a)

\* f32 -
FSub(a, b) == FAdd(a, FNeg(b))

\* <<H, L>> with hi * 2^24 + mid * 2^12 + lo = H * 2^24 + L, 0 <= L < 2^24.
MulCarry(hi, mid, low) ==
    <<hi + mid \div 4096 + low \div 2^24, low % 2^24>>

\* |a.m| * |b.m| = H * 2^24 + L with 0 <= L < 2^24, as <<H, L>>, from the
\* 12-bit halves x1, x0 of |a.m| and y1, y0 of |b.m|.
MulHalves(x1, x0, y1, y0) ==
    MulCarry(x1 * y1, x1 * y0 + y1 * x0,
             ((x1 * y0 + y1 * x0) % 4096) * 4096 + x0 * y0)

MulParts(a, b) ==
    MulHalves(Abs(a.m) \div 4096, Abs(a.m) % 4096,
              Abs(b.m) \div 4096, Abs(b.m) % 4096)

MulPack(sign, p, e) ==
    RoundPack(sign, p[1] * 64 + p[2] \div 2^18, e + 18, p[2] % 2^18 # 0)

\* f32 *
FMul(a, b) ==
    IF a.k = "nan" \/ b.k = "nan" THEN NaN
    ELSE IF a.k = "inf" \/ b.k = "inf"
    THEN (IF a.m = 0 \/ b.m = 0 THEN NaN ELSE Inf(Sign(a.m) * Sign(b.m)))
    ELSE IF a.m = 0 \/ b.m = 0 THEN Zero
    ELSE MulPack(Sign(a.m) * Sign(b.m), MulParts(a, b), a.e + b.e)

\* The product is q * 2^d + r with q the significand before rounding: what
\* rounding q to nearest, ties to even, leaves out.
MulErrCut(sign, q, r, d, e) ==
    IF r > 2^(d - 1) \/ (r = 2^(d - 1) /\ q % 2 = 1)
    THEN RoundPack(0 - sign, 2^d - r, e, FALSE)
    ELSE RoundPack(sign, r, e, FALSE)

MulErrPack(sign, p, e) ==
    IF p[1] >= 2^23 THEN MulErrCut(sign, p[1], p[2], 24, e)
    ELSE MulErrCut(sign, p[1] * 2 + p[2] \div 2^23, p[2] % 2^23, 23, e)

\* The rounding error of FMul(a, b), itself an f32: a * b - FMul(a, b), for
\* finite non-zero a, b.
MulErr(a, b) ==
    MulErrPack(Sign(a.m) * Sign(b.m), MulParts(a, b), a.e + b.e)

RECURSIVE DivSteps(_, _, _, _)
\* Long division by y, three bits a step: quotient and remainder.
DivSteps(r, y, q, n) ==
    IF n = 0 THEN <<q, r>>
    ELSE DivSteps((r * 8) % y, y, q * 8 + (r * 8) \div y, n - 1)

DivPack(sign, qr, e) == RoundPack(sign, qr[1], e, qr[2] # 0)

\* f32 /
FDiv(a, b) ==
    IF a.k = "nan" \/ b.k = "nan" THEN NaN
    ELSE IF a.k = "inf"
    THEN (IF b.k = "inf" THEN NaN ELSE Inf(a.m * Sign(b.m)))
    ELSE IF b.k = "inf" THEN Zero
    ELSE IF b.m = 0 THEN (IF a.m = 0 THEN NaN ELSE Inf(Sign(a.m)))
    ELSE IF a.m = 0 THEN Zero
    ELSE DivPack(Sign(a.m) * Sign(b.m),
                 DivSteps(Abs(a.m) % Abs(b.m), Abs(b.m),
                          Abs(a.m) \div Abs(b.m), 9),
                 a.e - b.e - 27)

\* Digit pos, in base 16, of M * 2^26.
SqrtBits(M, pos) ==
    IF pos >= 7 THEN (M \div 2^(4 * pos - 26)) % 16
    ELSE IF pos = 6 THEN (M % 4) * 4
    ELSE 0

\* The next base-4 digit of the root q with remainder r1.
SqrtDigit(q, r1) ==
    CHOOSE d \in 0..3 :
        d * (q * 8 + d) <= r1 /\ r1 < (d + 1) * (q * 8 + d + 1)

RECURSIVE SqrtSteps(_, _, _, _)
\* The integer square root of M * 2^26 and its remainder, two bits of the
\* root a step.
SqrtSteps(M, pos, q, r) ==
    IF pos < 0 THEN <<q, r>>
    ELSE LET r1 == r * 16 + SqrtBits(M, pos)
             d == SqrtDigit(q, r1)
         IN  SqrtSteps(M, pos - 1, q * 4 + d, r1 - d * (q * 8 + d))

SqrtPack(qr, e) == RoundPack(1, qr[1], e, qr[2] # 0)

\* f32::sqrt
FSqrt(a) ==
    IF a.k = "nan" THEN NaN
    ELSE IF a.k = "inf" THEN (IF a.m > 0 THEN a ELSE NaN)
    ELSE IF a.m = 0 THEN Zero
    ELSE IF a.m < 0 THEN NaN
    ELSE SqrtPack(SqrtSteps(IF a.e % 2 = 1 THEN a.m * 2 ELSE a.m, 12, 0, 0),
                  a.e \div 2 - 13)

\* f32 <= (false on NaN)
FLe(a, b) ==
    /\ a.k # "nan" /\ b.k # "nan"
    /\ IF a.k = "inf" THEN a.m < 0 \/ (b.k = "inf" /\ b.m > 0)
       ELSE IF b.k = "inf" THEN b.m > 0
       ELSE FSub(a, b).m <= 0

\* f32::powi(3): a * (a * a)
Powi3(a) == FMul(a, FMul(a, a))

\* The next f32 above and below a finite c > 0.
Succ(c) == IF c.m = 2^24 - 1 THEN Fin(2^23, c.e + 1) ELSE Fin(c.m + 1, c.e)
Pred(c) == IF c.m = 2^23 THEN Fin(2^24 - 1, c.e - 1) ELSE Fin(c.m - 1, c.e)

\* CubeDiff with p the f32 product c * c.
CubeDiffFrom(c, x, corr, p) ==
    FAdd(FSub(FMul(p, c), x),
         FSub(FAdd(MulErr(p, c), FMul(MulErr(c, c), c)), corr))

\* c^3 - x - corr for c near the cube root of x, to well below an ulp of x:
\* the products are taken with their rounding errors.
CubeDiff(c, x, corr) == CubeDiffFrom(c, x, corr, FMul(c, c))

\* CubeNewton with r2 the f32 product r * r.
CubeNewtonFrom(r, x, r2) ==
    FSub(r, FDiv(FSub(FMul(r2, r), x), FMul(FromInt(3), r2)))

\* One Newton step for the cube root of x.
CubeNewton(r, x) == CubeNewtonFrom(r, x, FMul(r, r))

RECURSIVE CubeNewtons(_, _, _)
\* n Newton steps.
CubeNewtons(r, x, n) ==
    IF n = 0 THEN r ELSE CubeNewtons(CubeNewton(r, x), x, n - 1)

RECURSIVE CubeSettle(_, _, _)
\* CubeSettle with d the CubeDiff of c (not above zero) and du that of the
\* next f32 above c.
CubeAbove(c, x, corr, d, du) ==
    IF du.m <= 0 THEN CubeSettle(Succ(c), x, corr)
    ELSE IF d.m = 0 THEN {c}
    ELSE {c, Succ(c)}

\* CubeSettle with d the CubeDiff of c.
CubeBelow(c, x, corr, d) ==
    IF d.m > 0 THEN CubeSettle(Pred(c), x, corr)
    ELSE CubeAbove(c, x, corr, d, CubeDiff(Succ(c), x, corr))

\* The f32 that enclose the cube root of x + corr, found from a close c:
\* the root itself if it is an f32, else the f32 below and the f32 above.
CubeSettle(c, x, corr) == CubeBelow(c, x, corr, CubeDiff(c, x, corr))

\* A first guess of nine bits at the cube root of x, with exponent t + 23.
CubeSeed(x, t) ==
    Fin((CHOOSE c \in 256..511 :
             /\ c * c * c <= x.m * 2^(x.e - 46 - 3 * t + 1)
             /\ x.m * 2^(x.e - 46 - 3 * t + 1) < (c + 1) * (c + 1) * (c + 1))
            * 2^15,
        t)

\* ln(1 + i/16) * 2^12 for i = 0..16.
LnTable == <<0, 248, 482, 704, 914, 1114, 1304, 1486, 1661, 1828, 1989, 2143, 2292, 2436, 2575, 2709, 2839>>

\* ln(x) in units of 2^-12, read at entry i of LnTable and the next.
LnOf(x, i) ==
    2839 * (x.e + 23) + LnTable[i]
        + ((LnTable[i + 1] - LnTable[i])
               * (((x.m - 2^23) % 2^19) \div 512)) \div 1024

\* l * 2^-37
LnScaled(l) == [l EXCEPT !.e = IF l.m = 0 THEN 0 ELSE @ - 37]

\* x * ln(x) * 2^-25
PowfCorr(x) ==
    FMul(x, LnScaled(FromInt(LnOf(x, (x.m - 2^23) \div 2^19 + 1))))

\* f32::powf(1.0/3.0): the values libm's powf can return.  The exponent is
\* the f32 nearest to 1/3, which is 1/3 + 2^-25/3, so the power is the cube
\* root of x * x^(2^-25), that is of x + x * ln(x) * 2^-25 to well below an
\* ulp; ln(x) is taken from LnTable.  powf is accurate to less than an ulp
\* and not more, so it returns the f32 below the real power or the one
\* above.  A negative base with this exponent gives NaN, but -inf gives
\* +inf.
PowfOneThird(x) ==
    IF x.k = "nan" THEN {NaN}
    ELSE IF x.k = "inf" THEN {Inf(1)}
    ELSE IF x.m = 0 THEN {Zero}
    ELSE IF x.m < 0 THEN {NaN}
    ELSE CubeSettle(CubeNewtons(CubeSeed(x, (x.e - 46) \div 3), x, 3),
                    x, PowfCorr(x))

\* std::f32::consts::PI = 3.14159274 and pub const G: f32 = 0.0001
PI == Fin(13176795, 0 - 22)
G == Fin(13743895, 0 - 37)

\* ------------------------------------------------------------- vectors
ZeroVec == <<Zero, Zero>>
VAdd(a, b) == <<FAdd(a[1], b[1]), FAdd(a[2], b[2])>>
VSub(a, b) == <<FSub(a[1], b[1]), FSub(a[2], b[2])>>
\* Vector2 * f32 and f32 * Vector2
VScale(a, s) == <<FMul(a[1], s), FMul(a[2], s)>>
\* Vector2 / f32 and Point2 / f32
VDiv(a, s) == <<FDiv(a[1], s), FDiv(a[2], s)>>
\* Point2::new(x, y) of integer coordinates
Point(x, y) == <<FromInt(x), FromInt(y)>>

\* tools::volume_of_sphere: (4.0/3.0) * PI * radius.powi(3)
VolumeOfSphere(radius) ==
    FMul(FMul(FDiv(FromInt(4), FromInt(3)), PI), Powi3(radius))

\* tools::inverse_volume_of_sphere: ((3.0 * volume)/(4.0 * PI)).powf(1.0/3.0),
\* the values it can return.
InverseVolumeOfSphere(volume) ==
    PowfOneThird(FDiv(FMul(FromInt(3), volume), FMul(FromInt(4), PI)))

\* --------------------------------------------------------------- planet
\* The density policy of Planet::new for an omitted mass: the mass of a
\* sphere of the given radius and of density Density.
Density == FromInt(1)
DefaultMass(radius) == FMul(VolumeOfSphere(radius), Density)

\* Planet::new(id, position, velocity: Option, mass: Option, radius)
PlanetNew(id, position, velocity, mass, radius) ==
    [ id |-> id,
      position |-> position,
      velocity |-> IF velocity = <<>> THEN ZeroVec ELSE velocity[1],
      resultant_force |-> ZeroVec,
      mass |-> IF mass = <<>> THEN DefaultMass(radius) ELSE mass[1],
      radius |-> radius ]

\* The end of Planet::update, velocity being the new velocity.
PlanetMove(p, delta, velocity) ==
    [ p EXCEPT !.velocity = velocity,
               !.position = VAdd(p.position, VScale(velocity, delta)),
               !.resultant_force = ZeroVec ]

\* Planet::update(dt): velocity += (force / mass) * dt; position +=
\* velocity * dt; the accumulator is cleared.
PlanetUpdate(p, delta) ==
    PlanetMove(p, delta,
               VAdd(p.velocity,
                    VScale(VDiv(p.resultant_force, p.mass), delta)))

\* The displacement and squared distance newtonian_grav is handed.
DistVec(pl1, pl2) == VSub(pl2.position, pl1.position)
DistSquared(v) == FAdd(FMul(v[1], v[1]), FMul(v[2], v[2]))

Squared(x) == FMul(x, x)

\* tools::check_collision: the centres are no further apart than the sum of
\* the radii, compared squared (a comparison with NaN is false).
CheckCollision(pl1, pl2) ==
    FLe(DistSquared(DistVec(pl1, pl2)), Squared(FAdd(pl1.radius, pl2.radius)))

\* tools::newtonian_grav, line 29:
\* dist_vec * (G * pl1.mass * pl2.mass/dist_squared.sqrt().powi(3)).
\* A zero distance divides by zero: the scale is infinite and the force,
\* a zero vector times it, is NaN.
ForceVec(pl1, pl2, dist_squared, dist_vec) ==
    VScale(dist_vec,
           FDiv(FMul(FMul(G, pl1.mass), pl2.mass), Powi3(FSqrt(dist_squared))))

\* A variant that adds the force to both bodies.
ApplyForceSameSign(pl1, pl2, force_vec) ==
    << [pl1 EXCEPT !.resultant_force = VAdd(@, force_vec)],
       [pl2 EXCEPT !.resultant_force = VAdd(@, force_vec)] >>

\* tools::newtonian_grav, lines 31-32:
\* pl1.resultant_force += force_vec; pl2.resultant_force -= force_vec.
ApplyForce(pl1, pl2, force_vec) ==
    << [pl1 EXCEPT !.resultant_force = VAdd(@, force_vec)],
       [pl2 EXCEPT !.resultant_force = VSub(@, force_vec)] >>

\* tools::newtonian_grav; the result is the pair of bodies as it leaves
\* them.
NewtonianGrav(pl1, pl2, dist_squared, dist_vec) ==
    ApplyForce(pl1, pl2, ForceVec(pl1, pl2, dist_squared, dist_vec))


\* --------------------------------------------------------------- inputs
\* The frame times timer::average_delta returns: a sixtieth of a second.
DtValues == {FDiv(FromInt(1), FromInt(60))}
\* Window positions of mouse presses, and of mouse releases.
MousePositions == {Point(331, 400), Point(334, 400)}
MouseReleases == {Point(331, 400)}
MouseButtons == {"Left", "Right"}
\* The radius mouse_button_up_event gives a spawned planet.
MouseRadius == FromInt(2)
\* The arguments of the add_planet and spawn_square_of_planets calls of
\* MainState::new, the square being cut from 10 x 10 to SquareSide x
\* SquareSide.
NewArgs ==
    [ big1 |-> Point(300, 400), big2 |-> Point(600, 400),
      big_radius |-> FromInt(30),
      top_left |-> Point(260, 360), w |-> SquareSide, h |-> SquareSide,
      gap |-> FromInt(50), rad |-> FromInt(2) ]

\* ------------------------------------------------------------- registry
\* A registry value: the HashMap planets, planet_id_count, and two records
\* of what the registry did: the ids add_planet_raw handed out, in order,
\* and the ids remove_planet removed.
EmptyMap == [x \in {} |-> 0]
Insert(map, key, value) ==
    [k \in DOMAIN map \cup {key} |-> IF k = key THEN value ELSE map[k]]
Remove(map, key) == [k \in DOMAIN map \ {key} |-> map[k]]

\* A variant that forgets to advance the counter.
AddPlanetRawNoIncrement(reg, planet) ==
    [ reg EXCEPT
        !.planets = Insert(@, reg.planet_id_count,
                           [planet EXCEPT !.id = reg.planet_id_count]),
        !.issued = Append(@, reg.planet_id_count) ]

\* MainState::add_planet_raw
AddPlanetRaw(reg, planet) ==
    [ reg EXCEPT
        !.planets = Insert(@, reg.planet_id_count,
                           [planet EXCEPT !.id = reg.planet_id_count]),
        !.issued = Append(@, reg.planet_id_count),
        !.planet_id_count = @ + 1 ]

\* MainState::add_planet
AddPlanet(reg, position, velocity, mass, radius) ==
    AddPlanetRaw(reg, PlanetNew(reg.planet_id_count, position, velocity,
                                mass, radius))

\* MainState::remove_planet: the expect panics on an id that is not live.
RemovePlanet(reg, id) ==
    IF id \in DOMAIN reg.planets
    THEN [ ok |-> TRUE,
           reg |-> [reg EXCEPT !.planets = Remove(@, id),
                               !.removed = @ \cup {id}] ]
    ELSE [ ok |-> FALSE, reg |-> reg ]

RECURSIVE SpawnSquareFrom(_, _, _, _, _, _, _, _)
\* for i in 0..w { for j in 0..h { ... } }, from (i, j) on.
SpawnSquareFrom(reg, top_left, w, h, gap, rad, i, j) ==
    IF i >= w THEN reg
    ELSE IF j >= h THEN SpawnSquareFrom(reg, top_left, w, h, gap, rad, i + 1, 0)
    ELSE SpawnSquareFrom(
             AddPlanet(reg,
                       << FAdd(top_left[1], FMul(FromInt(i), gap)),
                          FAdd(top_left[2], FMul(FromInt(j), gap)) >>,
                       <<>>, <<>>, rad),
             top_left, w, h, gap, rad, i, j + 1)

\* MainState::spawn_square_of_planets
SpawnSquareOfPlanets(reg, top_left, w, h, gap, rad) ==
    SpawnSquareFrom(reg, top_left, w, h, gap, rad, 0, 0)

\* MainState::new
New ==
    LET s0 == [ planets |-> EmptyMap, planet_id_count |-> 0,
                issued |-> <<>>, removed |-> {} ]
        s1 == AddPlanet(s0, NewArgs.big1, <<>>, <<>>, NewArgs.big_radius)
        s2 == SpawnSquareOfPlanets(s1, NewArgs.top_left, NewArgs.w, NewArgs.h,
                                   NewArgs.gap, NewArgs.rad)
    IN  AddPlanet(s2, NewArgs.big2, <<>>, <<>>, NewArgs.big_radius)

\* ------------------------------------------------------ collision groups
RECURSIVE PutInGroupFrom(_, _, _, _)
\* The loop of put_in_collision_group from group k on: the first group that
\* holds either id takes the other one, and the loop breaks.
PutInGroupFrom(collision_groups, i_id, j_id, k) ==
    IF k > Len(collision_groups)
    THEN Append(collision_groups, {i_id, j_id})
    ELSE LET contains_i == i_id \in collision_groups[k]
             contains_j == j_id \in collision_groups[k]
         IN  IF contains_i /\ contains_j THEN collision_groups
             ELSE IF contains_i
                  THEN [collision_groups EXCEPT ![k] = @ \cup {j_id}]
             ELSE IF contains_j
                  THEN [collision_groups EXCEPT ![k] = @ \cup {i_id}]
             ELSE PutInGroupFrom(collision_groups, i_id, j_id, k + 1)

\* MainState::put_in_collision_group
PutInCollisionGroup(collision_groups, i_id, j_id) ==
    PutInGroupFrom(collision_groups, i_id, j_id, 1)

\* ------------------------------------------------------------ pair scan
\* What st.log keeps of a pair: what check_collision answered, the route
\* taken, the squared distance of the pair, and both accumulators before
\* (b1, b2) and after (a1, a2).
LogEntry(id1, id2, colliding, route, dist_squared, pl1, pl2, r) ==
    [ i |-> id1, j |-> id2, colliding |-> colliding, route |-> route,
      dist_squared |-> dist_squared,
      b1 |-> pl1.resultant_force, b2 |-> pl2.resultant_force,
      a1 |-> r[1].resultant_force, a2 |-> r[2].resultant_force ]

\* The pair after tools::newtonian_grav, r being the two bodies as it
\* leaves them.
GravPair(st, id1, id2, pl1, pl2, dist_squared, r) ==
    [ st EXCEPT
        !.planets = [@ EXCEPT ![id1] = r[1], ![id2] = r[2]],
        !.log = Append(@, LogEntry(id1, id2, FALSE, "grav", dist_squared,
                                   pl1, pl2, r)) ]

\* The pair after Self::put_in_collision_group.
GroupPair(st, id1, id2, pl1, pl2, dist_squared) ==
    [ st EXCEPT
        !.groups = PutInCollisionGroup(@, id1, id2),
        !.log = Append(@, LogEntry(id1, id2, TRUE, "collision", dist_squared,
                                   pl1, pl2, <<pl1, pl2>>)) ]

\* A variant that routes a colliding pair to gravity and the others to the
\* grouper.
RoutePairInverted(st, id1, id2, pl1, pl2, colliding, dist_squared, dist_vec) ==
    IF ~colliding
    THEN GroupPair(st, id1, id2, pl1, pl2, dist_squared)
    ELSE GravPair(st, id1, id2, pl1, pl2, dist_squared,
                  NewtonianGrav(pl1, pl2, dist_squared, dist_vec))

\* if colliding { put_in_collision_group } else { newtonian_grav }
RoutePair(st, id1, id2, pl1, pl2, colliding, dist_squared, dist_vec) ==
    IF colliding
    THEN GroupPair(st, id1, id2, pl1, pl2, dist_squared)
    ELSE GravPair(st, id1, id2, pl1, pl2, dist_squared,
                  NewtonianGrav(pl1, pl2, dist_squared, dist_vec))

\* The pair pl1, pl2 with its displacement: let colliding =
\* tools::check_collision(&bpl1, &bpl2), and the squared distance
\* newtonian_grav works from.
TestPair(st, id1, id2, pl1, pl2, dist_vec) ==
    RoutePair(st, id1, id2, pl1, pl2, CheckCollision(pl1, pl2),
              DistSquared(dist_vec), dist_vec)

\* The body of the inner loop of update: the pair is tested once and goes
\* to put_in_collision_group or to newtonian_grav; st.log records it.
ProcessPair(st, id1, id2) ==
    TestPair(st, id1, id2, st.planets[id1], st.planets[id2],
             DistVec(st.planets[id1], st.planets[id2]))

\* A variant whose inner loop starts at i.
InnerStartAtI(i) == i

\* The first j of the inner loop, for j in i+1..len (indices from 1).
InnerStart(i) == i + 1

RECURSIVE RowFrom(_, _, _, _)
\* for j in i+1..len { ... }, from j on; the expects on
\* self.planets.get(keys[i]) and self.planets.get(keys[j]) panic
\* (ok = FALSE) on a key that is not in the map.
RowFrom(st, keys, i, j) ==
    IF j > Len(keys) THEN st
    ELSE IF {keys[i], keys[j]} \subseteq DOMAIN st.planets
    THEN RowFrom(ProcessPair(st, keys[i], keys[j]), keys, i, j + 1)
    ELSE [st EXCEPT !.ok = FALSE]

RECURSIVE ScanFrom(_, _, _)
\* for i in 0..len-1 { ... }, from i on.
ScanFrom(st, keys, i) ==
    IF i > Len(keys) - 1 \/ ~st.ok THEN st
    ELSE ScanFrom(RowFrom(st, keys, i, InnerStart(i)), keys, i + 1)

\* The pair scan of update over the key order keys.
Scan(map, keys) ==
    ScanFrom([planets |-> map, groups |-> <<>>, log |-> <<>>, ok |-> TRUE],
             keys, 1)

RECURSIVE IterOrders(_)
\* The orders in which a HashMap or a HashSet can yield its keys: every
\* permutation.
IterOrders(S) ==
    IF S = {} THEN {<<>>}
    ELSE UNION {{<<x>> \o p : p \in IterOrders(S \ {x})} : x \in S}

RECURSIVE Increasing(_)
\* The elements of a set of ids, in increasing order.
Increasing(S) ==
    IF S = {} THEN <<>>
    ELSE <<CHOOSE y \in S : \A z \in S : y <= z>>
             \o Increasing(S \ {CHOOSE y \in S : \A z \in S : y <= z})

RECURSIVE Fronts(_, _)
\* The sequences of at most n distinct elements of S.
Fronts(S, n) ==
    IF n = 0 THEN {<<>>}
    ELSE {<<>>} \cup UNION {{<<x>> \o f : f \in Fronts(S \ {x}, n - 1)} : x \in S}

\* The orders of self.planets.keys() that are followed: at most MaxMoved
\* keys, then the others in increasing order.
KeyOrders(S) ==
    {f \o Increasing(S \ {f[k] : k \in 1..Len(f)}) : f \in Fronts(S, MaxMoved)}

\* What the pair scan can leave, over the orders of self.planets.keys().
ScanResults(map) == {Scan(map, keys) : keys \in KeyOrders(DOMAIN map)}

\* ----------------------------------------------------------- resolution
\* A variant that keeps the last member's mass instead of the sum.
AddMassLast(total_mass, mass) == mass

\* collide_planets: total_mass += p.mass
AddMass(total_mass, mass) == FAdd(total_mass, mass)

RECURSIVE CollideFrom(_, _, _, _)
\* The loop of collide_planets over the group as its HashSet yields it, from
\* member k on; the expect panics (ok = FALSE) on a member that is not in
\* the map.
CollideFrom(p, order, k, sums) ==
    IF k > Len(order) THEN [ok |-> TRUE, sums |-> sums]
    ELSE IF order[k] \notin DOMAIN p THEN [ok |-> FALSE, sums |-> sums]
    ELSE LET pl == p[order[k]]
         IN  CollideFrom(p, order, k + 1,
                 [ total_mass |-> AddMass(sums.total_mass, pl.mass),
                   total_volume |->
                       FAdd(sums.total_volume, VolumeOfSphere(pl.radius)),
                   inital_momentum |->
                       VAdd(sums.inital_momentum, VScale(pl.velocity, pl.mass)),
                   sum_of_rm |->
                       VAdd(sums.sum_of_rm, VScale(pl.position, pl.mass)) ])

\* The end of collide_planets, c being what the loop leaves: the planets
\* it can return, one for each value inverse_volume_of_sphere can.
CollidedPlanet(c) ==
    IF ~c.ok THEN {[ok |-> FALSE, planet |-> <<>>]}
    ELSE {[ ok |-> TRUE,
            planet |->
                PlanetNew(0, VDiv(c.sums.sum_of_rm, c.sums.total_mass),
                          <<VDiv(c.sums.inital_momentum, c.sums.total_mass)>>,
                          <<c.sums.total_mass>>, new_radius) ] :
             new_radius \in InverseVolumeOfSphere(c.sums.total_volume)}

\* MainState::collide_planets, on a group in the order its HashSet yields.
CollidePlanets(reg, order) ==
    CollidedPlanet(
        CollideFrom(reg.planets, order, 1,
                    [ total_mass |-> Zero, total_volume |-> Zero,
                      inital_momentum |-> ZeroVec, sum_of_rm |-> ZeroVec ]))

RECURSIVE RemoveAll(_, _, _)
\* for id in collision_group { self.remove_planet(*id) }, from member k on.
RemoveAll(reg, order, k) ==
    IF k > Len(order) THEN [ok |-> TRUE, reg |-> reg]
    ELSE LET r == RemovePlanet(reg, order[k])
         IN  IF r.ok THEN RemoveAll(r.reg, order, k + 1) ELSE r

RECURSIVE AddAll(_, _, _)
\* for planet in new_planets { self.add_planet_raw(planet) }
AddAll(reg, new_planets, k) ==
    IF k > Len(new_planets) THEN reg
    ELSE AddAll(AddPlanetRaw(reg, new_planets[k]), new_planets, k + 1)

RECURSIVE ResolveFrom(_, _, _, _)
\* Group k of resolve_collisions once its members are removed (r).
ResolveRemoved(orders, k, new_planets, planet, r) ==
    IF ~r.ok THEN {r}
    ELSE ResolveFrom(r.reg, orders, k + 1, Append(new_planets, planet))

\* Group k of resolve_collisions once collide_planets has returned c.
ResolveGroup(reg, orders, k, new_planets, c) ==
    IF ~c.ok THEN {[ok |-> FALSE, reg |-> reg]}
    ELSE ResolveRemoved(orders, k, new_planets, c.planet,
                        RemoveAll(reg, orders[k], 1))

\* The loop of resolve_collisions from group k on, then the loop that adds
\* the new planets: the outcomes it can have.
ResolveFrom(reg, orders, k, new_planets) ==
    IF k > Len(orders)
    THEN {[ok |-> TRUE, reg |-> AddAll(reg, new_planets, 1)]}
    ELSE UNION {ResolveGroup(reg, orders, k, new_planets, c) :
                    c \in CollidePlanets(reg, orders[k])}

\* MainState::resolve_collisions, each group given in the order its HashSet
\* yields its members: the outcomes it can have; ok = FALSE is a panic, with
\* the registry as the panic leaves it.
ResolveCollisions(reg, orders) == ResolveFrom(reg, orders, 1, <<>>)

RECURSIVE GroupOrders(_, _)
\* The orders in which the HashSets of collision_groups, from group k on,
\* can yield their members.
GroupOrders(collision_groups, k) ==
    IF k > Len(collision_groups) THEN {<<>>}
    ELSE {<<o>> \o rest : o \in IterOrders(collision_groups[k]),
                          rest \in GroupOrders(collision_groups, k + 1)}

\* ---------------------------------------------------------- integration
\* for (_, pl) in self.planets.iter() { pl.borrow_mut().update(dt) }
IntegrateAll(map, delta) ==
    [id \in DOMAIN map |-> PlanetUpdate(map[id], delta)]

\* A variant that integrates straight after the pair scan.
NextPhaseSkipResolve(phase) ==
    CASE phase = "scan" -> "integrate"
      [] phase = "resolve" -> "integrate"
      [] phase = "integrate" -> "idle"

\* The order of the phases of update on a non-empty registry.
NextPhase(phase) ==
    CASE phase = "scan" -> "resolve"
      [] phase = "resolve" -> "integrate"
      [] phase = "integrate" -> "idle"

\* ---------------------------------------------------------------- state
VARIABLES
    planet_id_count,   \* MainState.planet_id_count
    planets,           \* MainState.planets: id -> Planet
    mouse_info,        \* MainState.mouse_info: down, button_down, down_pos
    collision_groups,  \* update's local collision_groups
    dt,                \* update's local dt
    pc,                \* where update stands: idle, resolve, integrate, panicked
    issued,            \* history: the ids add_planet_raw handed out, in order
    removed,           \* history: the ids remove_planet removed
    pair_log,          \* history: the pairs of the scan of the step in progress
    pre,               \* history: planets and planet_id_count when the step began
    phases,            \* history: the phases the current step has completed
    integrated,        \* history: the bodies integrated, with their accumulators
    last_event,        \* history: the last handler or phase that ran
    n_pressed,         \* history: mouse presses so far
    n_released,        \* history: mouse releases so far
    n_steps            \* history: completed steps so far

vars ==
    << planet_id_count, planets, mouse_info, collision_groups, dt, pc, issued,
       removed, pair_log, pre, phases, integrated, last_event, n_pressed,
       n_released, n_steps >>

Registry ==
    [ planets |-> planets, planet_id_count |-> planet_id_count,
      issued |-> issued, removed |-> removed ]

SetRegistry(reg) ==
    /\ planets' = reg.planets
    /\ planet_id_count' = reg.planet_id_count
    /\ issued' = reg.issued
    /\ removed' = reg.removed

\* MouseInfo::default, less current_drag_position, which only draw reads.
MouseInfoDefault ==
    [down |-> FALSE, button_down |-> "Left", down_pos |-> Point(0, 0)]

\* The state event::run starts from: MainState::new.
Init ==
    /\ \E reg \in {New} :
           /\ planets = reg.planets
           /\ planet_id_count = reg.planet_id_count
           /\ issued = reg.issued
           /\ removed = reg.removed
           /\ pre = [ planets |-> reg.planets,
                      planet_id_count |-> reg.planet_id_count ]
    /\ mouse_info = MouseInfoDefault
    /\ collision_groups = <<>>
    /\ dt = Zero
    /\ pc = "idle"
    /\ pair_log = <<>>
    /\ phases = <<>>
    /\ integrated = {}
    /\ last_event = "new"
    /\ n_pressed = 0
    /\ n_released = 0
    /\ n_steps = 0

\* EventHandler::mouse_button_down_event
MouseButtonDown ==
    /\ pc = "idle"
    /\ n_pressed < MaxPresses
    /\ \E button \in MouseButtons, pos \in MousePositions :
           mouse_info' = [ down |-> TRUE, button_down |-> button,
                           down_pos |-> pos ]
    /\ n_pressed' = n_pressed + 1
    /\ last_event' = "mouse_down"
    /\ UNCHANGED << planet_id_count, planets, collision_groups, dt, pc, issued,
                    removed, pair_log, pre, phases, integrated, n_released,
                    n_steps >>

\* EventHandler::mouse_button_up_event
MouseButtonUp ==
    /\ pc = "idle"
    /\ n_released < MaxReleases
    /\ \E button \in MouseButtons, pos \in MouseReleases :
           IF button = "Left"
           THEN SetRegistry(AddPlanet(Registry, mouse_info.down_pos,
                                      <<VSub(mouse_info.down_pos, pos)>>,
                                      <<>>, MouseRadius))
           ELSE SetRegistry(Registry)
    /\ mouse_info' = [mouse_info EXCEPT !.down = FALSE]
    /\ n_released' = n_released + 1
    /\ last_event' = "mouse_up"
    /\ UNCHANGED << collision_groups, dt, pc, pair_log, pre, phases,
                    integrated, n_pressed, n_steps >>

\* EventHandler::update, the pair scan (lines 260-280): the keys are taken
\* in the HashMap's order, any permutation.  On an empty registry (len = 0)
\* update skips all three phases and changes nothing of this state.
UpdateScan ==
    /\ pc = "idle"
    /\ n_steps < MaxSteps
    /\ DOMAIN planets # {}
    /\ \E delta \in DtValues, st \in ScanResults(planets) :
           /\ planets' = st.planets
           /\ collision_groups' = st.groups
           /\ pair_log' = st.log
           /\ dt' = delta
           /\ pc' = IF st.ok THEN NextPhase("scan") ELSE "panicked"
           /\ last_event' = IF st.ok THEN "scan" ELSE "panic"
    /\ pre' = [planets |-> planets, planet_id_count |-> planet_id_count]
    /\ phases' = <<"scan">>
    /\ integrated' = {}
    /\ UNCHANGED << planet_id_count, mouse_info, issued, removed, n_pressed,
                    n_released, n_steps >>

\* EventHandler::update, self.resolve_collisions(&collision_groups), each
\* HashSet yielding its members in any order; a panic ends the program.
UpdateResolve ==
    /\ pc = "resolve"
    /\ \E orders \in GroupOrders(collision_groups, 1) :
           \E r \in ResolveCollisions(Registry, orders) :
               /\ SetRegistry(r.reg)
               /\ pc' = IF r.ok THEN NextPhase("resolve") ELSE "panicked"
               /\ phases' = IF r.ok THEN Append(phases, "resolve") ELSE phases
               /\ last_event' = IF r.ok THEN "resolve" ELSE "panic"
    /\ UNCHANGED << mouse_info, collision_groups, dt, pair_log, pre,
                    integrated, n_pressed, n_released, n_steps >>

\* EventHandler::update, the integration loop (lines 284-287), and the end
\* of the step.
UpdateIntegrate ==
    /\ pc = "integrate"
    /\ planets' = IntegrateAll(planets, dt)
    /\ integrated' =
           {[ id |-> id, force |-> planets[id].resultant_force,
              grouped |-> \E k \in 1..Len(collision_groups) :
                              id \in collision_groups[k] ] :
                id \in DOMAIN planets}
    /\ pc' = NextPhase("integrate")
    /\ phases' = Append(phases, "integrate")
    /\ pair_log' = <<>>
    /\ last_event' = "integrate"
    /\ n_steps' = n_steps + 1
    /\ UNCHANGED << planet_id_count, mouse_info, collision_groups, dt, issued,
                    removed, pre, n_pressed, n_released >>

Next ==
    \/ MouseButtonDown
    \/ MouseButtonUp
    \/ UpdateScan
    \/ UpdateResolve
    \/ UpdateIntegrate

Spec == Init /\ [][Next]_vars

\* The outcome of a step whose scan left st and whose resolution left r.
OutcomeOf(reg, st, r) ==
    [ ok |-> r.ok,
      groups |-> {st.groups[k] : k \in 1..Len(st.groups)},
      removed |-> DOMAIN reg.planets \ DOMAIN r.reg.planets ]

\* The resolution of a step whose scan left st.
ResolvedFrom(reg, st) ==
    OutcomeOf(reg, st,
              CHOOSE r \in
                  ResolveCollisions([reg EXCEPT !.planets = st.planets],
                                    CHOOSE o \in GroupOrders(st.groups, 1) :
                                        TRUE) : TRUE)

\* What of a step does not hang on f32 rounding, for the key order keys:
\* whether the step completes, the groups formed (as a set), and the
\* bodies removed.
StepOutcome(reg, keys) == ResolvedFrom(reg, Scan(reg.planets, keys))

\* ------------------------------------------------------------ properties
Live == DOMAIN planets
GroupIndices == 1..Len(collision_groups)
Grouped == UNION {collision_groups[k] : k \in GroupIndices}
LogIndices == 1..Len(pair_log)
CollisionEdges ==
    {{pair_log[k].i, pair_log[k].j} :
         k \in {n \in LogIndices : pair_log[n].route = "collision"}}

RECURSIVE ReachFrom(_, _)
ReachFrom(S, edges) ==
    LET T == S \cup UNION {e \in edges : e \cap S # {}}
    IN  IF T = S THEN S ELSE ReachFrom(T, edges)

Connected(a, b) == b \in ReachFrom({a}, CollisionEdges)
SameGroup(a, b) == \E k \in GroupIndices : {a, b} \subseteq collision_groups[k]

SetToSeq(S) == Increasing(S)

\* The rounding error of FAdd(a, b), itself an f32: a + b - FAdd(a, b), for
\* finite a, b.
AddErr(a, b) ==
    LET s  == FAdd(a, b)
        bv == FSub(s, a)
    IN  FAdd(FSub(a, FSub(s, bv)), FSub(b, bv))

RECURSIVE GrowExpansion(_, _, _, _)
\* The terms of e from term k on, and q, added without rounding: a sequence
\* of f32 with the same real sum whose non-zero terms do not overlap.
GrowExpansion(e, k, q, out) ==
    IF k > Len(e) THEN Append(out, q)
    ELSE GrowExpansion(e, k + 1, FAdd(q, e[k]), Append(out, AddErr(q, e[k])))

RECURSIVE ExactSum(_, _, _)
\* The real sum of the f32 of xs from term k on, added to the expansion e.
ExactSum(xs, k, e) ==
    IF k > Len(xs) THEN e
    ELSE ExactSum(xs, k + 1, GrowExpansion(e, 1, xs[k], <<>>))

\* The f32 of xs are finite and their sum, taken in the reals, is zero.
ExactlyZero(xs) ==
    /\ \A k \in 1..Len(xs) : xs[k].k = "fin"
    /\ LET e == ExactSum(xs, 1, <<>>)
       IN  \A k \in 1..Len(e) : e[k].m = 0

RECURSIVE SumF32(_, _, _, _)
\* The f32 running sum, from acc, of the masses of the bodies order names,
\* from member k on.
SumF32(map, order, k, acc) ==
    IF k > Len(order) THEN acc
    ELSE SumF32(map, order, k + 1, FAdd(acc, map[order[k]].mass))

\* The masses of the bodies of S in map, negated or not.
Masses(map, S, negate) ==
    LET ids == SetToSeq(S)
    IN  [k \in 1..Len(ids) |->
            IF negate THEN FNeg(map[ids[k]].mass) ELSE map[ids[k]].mass]

\* Component c of the accumulators of the live bodies.
Accumulators(c) ==
    LET ids == SetToSeq(Live)
    IN  [k \in 1..Len(ids) |-> planets[ids[k]].resultant_force[c]]

\* The id resolve_collisions gives the replacement of group k.
ReplacementOf(k) == pre.planet_id_count + k - 1

\* The accumulator of body x before and after pair k of the scan.
AccBefore(k, x) == IF pair_log[k].i = x THEN pair_log[k].b1 ELSE pair_log[k].b2
AccAfter(k, x) == IF pair_log[k].i = x THEN pair_log[k].a1 ELSE pair_log[k].a2
\* The pairs of the scan, up to pair n, that body x is part of.
PairsOf(x, n) == {k \in 1..n : x \in {pair_log[k].i, pair_log[k].j}}
Last(S) == CHOOSE k \in S : \A l \in S : l <= k
\* The accumulator of body x when pair n of the scan is done.
AccAt(x, n) ==
    IF PairsOf(x, n) = {} THEN pre.planets[x].resultant_force
    ELSE AccAfter(Last(PairsOf(x, n)), x)

\* The force_vec of pair k of the scan: the scan moves no body and changes
\* no mass.
ForceOf(k) ==
    ForceVec(pre.planets[pair_log[k].i], pre.planets[pair_log[k].j],
             pair_log[k].dist_squared,
             DistVec(pre.planets[pair_log[k].i], pre.planets[pair_log[k].j]))

\* C1: after the pair scan of a step, the collision groups are the connected
\* components of the collides-with graph of the pairs fed to
\* put_in_collision_group: the groups are pairwise disjoint, and two ids are
\* in one group iff a chain of colliding pairs connects them.
C1_GroupsAreComponents ==
    last_event = "scan" =>
        /\ \A k, l \in GroupIndices :
               k # l => collision_groups[k] \cap collision_groups[l] = {}
        /\ \A a, b \in Live : a # b => (SameGroup(a, b) <=> Connected(a, b))

\* C2: the ids add_planet_raw hands out are strictly increasing, so none is
\* handed out twice even after removals; every live body's id is below
\* planet_id_count, was handed out exactly once and has not been removed.
C2_IdsFreshAndLive ==
    /\ \A k, l \in 1..Len(issued) : k < l => issued[k] < issued[l]
    /\ \A id \in Live :
           /\ id < planet_id_count
           /\ planets[id].id = id
           /\ id \notin removed
           /\ Cardinality({k \in 1..Len(issued) : issued[k] = id}) = 1

\* A spawn after a step that merged bodies: ids were removed, and the new
\* body's id is above all of them.
C2_Witness ==
    /\ last_event = "mouse_up"
    /\ removed # {}
    /\ planet_id_count - 1 \in Live
    /\ planets[planet_id_count - 1].radius = MouseRadius
    /\ issued[Len(issued)] = planet_id_count - 1
    /\ \A r \in removed : r < planet_id_count - 1

\* C3: in the pair scan of a step every unordered pair of distinct live
\* bodies is tested exactly once and takes exactly one route: the grouper if
\* it collides, gravity if it does not; the collision route leaves both
\* accumulators as they were.
C3_EachPairOnceOneRoute ==
    last_event = "scan" =>
        LET ids == DOMAIN pre.planets
            n == Cardinality(ids)
        IN  /\ 2 * Len(pair_log) = n * (n - 1)
            /\ \A a, b \in ids :
                   a < b =>
                       Cardinality({k \in LogIndices :
                           {pair_log[k].i, pair_log[k].j} = {a, b}}) = 1
            /\ \A k \in LogIndices :
                   LET e == pair_log[k]
                   IN  /\ e.i # e.j
                       /\ {e.i, e.j} \subseteq ids
                       /\ e.route \in {"collision", "grav"}
                       /\ e.route = "collision" <=>
                              CheckCollision(pre.planets[e.i], pre.planets[e.j])
                       /\ e.route = "collision" =>
                              /\ SameGroup(e.i, e.j)
                              /\ e.a1 = e.b1 /\ e.a2 = e.b2
                       /\ e.route = "grav" => {e.i, e.j} \notin CollisionEdges

\* A scan of at least three bodies that took both routes.
C3_Witness ==
    /\ last_event = "scan"
    /\ Cardinality(Live) >= 3
    /\ \E k \in LogIndices : pair_log[k].route = "collision"
    /\ \E k \in LogIndices :
           pair_log[k].route = "grav" /\ pair_log[k].a1 # pair_log[k].b1

\* C4: resolve_collisions completes, and leaves every grouped body removed,
\* every other body live under its old id, and one new body with a fresh id
\* per group.
C4_ResolveReplacesGroups ==
    last_event \in {"resolve", "panic"} =>
        /\ last_event = "resolve"
        /\ Grouped \cap Live = {}
        /\ (DOMAIN pre.planets) \ Grouped \subseteq Live
        /\ Live \ DOMAIN pre.planets = {ReplacementOf(k) : k \in GroupIndices}
        /\ Cardinality(Live) =
               Cardinality(DOMAIN pre.planets) - Cardinality(Grouped)
                   + Len(collision_groups)

\* C5: a step that hits a bookkeeping error (a group naming an id that is no
\* longer live) leaves the registry and the id counter as they were before
\* the step.
C5_FailingStepLeavesNoTrace ==
    pc = "panicked" =>
        /\ planets = pre.planets
        /\ planet_id_count = pre.planet_id_count

\* C6, as stated: the replacement body of each merged group has the sum of
\* the members' masses exactly, and the total mass of the live bodies is the
\* same after the resolution of a step as before the step.
C6_MassExactlyConserved ==
    last_event = "resolve" =>
        /\ \A k \in GroupIndices :
               /\ ReplacementOf(k) \in Live
               /\ ExactlyZero(Masses(pre.planets, collision_groups[k], FALSE)
                                  \o <<FNeg(planets[ReplacementOf(k)].mass)>>)
        /\ ExactlyZero(Masses(pre.planets, DOMAIN pre.planets, FALSE)
                           \o Masses(planets, Live, TRUE))

\* C6, amended: the replacement body of each merged group has the f32
\* running sum, from 0.0, of the members' masses in the order the group's
\* HashSet yields them, each addition rounded; every other body keeps its
\* mass through resolution and integration.
C6_MassIsRoundedSum ==
    /\ last_event = "resolve" =>
           \A k \in GroupIndices :
               /\ ReplacementOf(k) \in Live
               /\ \E order \in IterOrders(collision_groups[k]) :
                      planets[ReplacementOf(k)].mass =
                          SumF32(pre.planets, order, 1, Zero)
    /\ last_event \in {"scan", "resolve", "integrate"} =>
           \A id \in Live \cap DOMAIN pre.planets :
               planets[id].mass = pre.planets[id].mass

\* A completed resolution that merged a group whose masses do not add up to
\* an f32: the replacement has the rounded sum.
C6_Witness ==
    /\ last_event = "resolve"
    /\ \E k \in GroupIndices :
           /\ ReplacementOf(k) \in Live
           /\ planets[ReplacementOf(k)].mass.k = "fin"
           /\ ~ExactlyZero(Masses(pre.planets, collision_groups[k], FALSE)
                               \o <<FNeg(planets[ReplacementOf(k)].mass)>>)

\* C7, as stated: newtonian_grav hands one body force_vec and the other its
\* negation, and at the end of the pair scan the accumulated forces of all
\* bodies sum to the zero vector.
C7_ThirdLawExact ==
    last_event = "scan" =>
        /\ \A k \in LogIndices :
               pair_log[k].route = "grav" =>
                   /\ pair_log[k].a1 = VAdd(pair_log[k].b1, ForceOf(k))
                   /\ pair_log[k].a2 =
                          VAdd(pair_log[k].b2,
                               <<FNeg(ForceOf(k)[1]), FNeg(ForceOf(k)[2])>>)
        /\ ExactlyZero(Accumulators(1))
        /\ ExactlyZero(Accumulators(2))

\* C7, amended: for a non-colliding pair newtonian_grav adds force_vec to
\* one accumulator and subtracts the same force_vec from the other, each in
\* f32, once per pair; every accumulator starts the scan at zero and ends it
\* with what its pairs left, so the accumulators sum to zero only up to the
\* rounding of these additions.
C7_ThirdLawRounded ==
    last_event = "scan" =>
        /\ \A id \in DOMAIN pre.planets :
               /\ pre.planets[id].resultant_force = ZeroVec
               /\ planets[id].resultant_force = AccAt(id, Len(pair_log))
        /\ \A k \in LogIndices :
               LET e == pair_log[k]
               IN  /\ e.b1 = AccAt(e.i, k - 1)
                   /\ e.b2 = AccAt(e.j, k - 1)
                   /\ e.route = "grav" =>
                          /\ ForceOf(k)[1].k = "fin"
                          /\ ForceOf(k)[2].k = "fin"
                          /\ e.a1 = VAdd(e.b1, ForceOf(k))
                          /\ e.a2 = VSub(e.b2, ForceOf(k))

\* A scan in which one body was pulled by two others, with non-zero forces,
\* and the accumulators do not sum to zero.
C7_Witness ==
    /\ last_event = "scan"
    /\ \E k, l \in LogIndices :
           /\ k # l
           /\ pair_log[k].route = "grav" /\ pair_log[l].route = "grav"
           /\ ForceOf(k)[1].m # 0 /\ ForceOf(l)[1].m # 0
           /\ {pair_log[k].i, pair_log[k].j} \cap {pair_log[l].i, pair_log[l].j}
                  # {}
    /\ ~ExactlyZero(Accumulators(1))

\* C8: the outcome of a step does not depend on the order of the keys: every
\* order forms the same groups and removes the same bodies.
C8_OrderIndependent ==
    pc = "idle" =>
        Cardinality({StepOutcome(Registry, keys) : keys \in KeyOrders(Live)})
            <= 1

\* C9: the phases of a step run in the order scan, resolution, integration;
\* integration runs after every group has been resolved, on the bodies live
\* after resolution only, and a replacement body is integrated with a zero
\* accumulator.
C9_PhaseOrder ==
    /\ pc = "resolve" => phases = <<"scan">>
    /\ pc = "integrate" => phases = <<"scan", "resolve">>
    /\ last_event = "integrate" =>
           /\ phases = <<"scan", "resolve", "integrate">>
           /\ Grouped \cap Live = {}
           /\ {e.id : e \in integrated} = Live
           /\ \A e \in integrated :
                  /\ ~e.grouped
                  /\ e.id >= pre.planet_id_count => e.force = ZeroVec
                  /\ planets[e.id].resultant_force = ZeroVec

\* A completed step that merged a group and pulled a survivor: a replacement
\* was integrated, and so was a body with a non-zero accumulator.
C9_Witness ==
    /\ last_event = "integrate"
    /\ Len(collision_groups) > 0
    /\ \E e \in integrated : e.id >= pre.planet_id_count
    /\ \E e \in integrated : e.force # ZeroVec

\* C10: with every radius positive, newtonian_grav is never called on a pair
\* at squared distance 0: such a pair takes the collision route.
C10_NoGravAtZeroDistance ==
    (\A id \in DOMAIN pre.planets :
         pre.planets[id].radius.k = "fin" /\ pre.planets[id].radius.m > 0) =>
        \A k \in LogIndices :
            /\ pair_log[k].route = "grav" => pair_log[k].dist_squared # Zero
            /\ pair_log[k].dist_squared = Zero =>
                   pair_log[k].route = "collision"

\* A scan that met two bodies at the same position.
C10_Witness ==
    /\ last_event = "scan"
    /\ \A id \in DOMAIN pre.planets :
           pre.planets[id].radius.k = "fin" /\ pre.planets[id].radius.m > 0
    /\ \E k \in LogIndices :
           pair_log[k].dist_squared = Zero /\ pair_log[k].route = "collision"

====
